---------------------------- MODULE Spec2Model ----------------------------
(***************************************************************************)
(* CVSS Base Score calculator: the vector parser (parse_vector), the v3.1  *)
(* scoring engine (cvss31_base), the v4.0 shim (cvss40_base), the dispatch  *)
(* (compute_from_vector) of src/cvssCalculator.py and the /calculate       *)
(* handler of src/app.py.                                                  *)
(*                                                                         *)
(* Strings are sequences of one-character strings.  The floating-point     *)
(* numbers of the engine are exact decimals (sign, base-10^4 limbs, number *)
(* of fractional limbs): every weight and coefficient of the source is a   *)
(* short decimal literal, so that +, -, * and the 15th power are computed  *)
(* exactly; binary64 rounding of the intermediate results is abstracted.   *)
(***************************************************************************)
EXTENDS Integers, Sequences, FiniteSets, TLC

VARIABLES pc, request, vector, metrics, env, ret

vars == <<pc, request, vector, metrics, env, ret>>

-----------------------------------------------------------------------------
(* Exact decimal arithmetic standing for Python's float operators.         *)

Base == 100 * 100

\* a function over 1..n as a tuple
Tup(f) == <<>> \o f

RECURSIVE StripHigh(_)
StripHigh(m) ==
  IF m = <<>> THEN m
  ELSE IF m[Len(m)] = 0 THEN StripHigh(SubSeq(m, 1, Len(m) - 1)) ELSE m

\* limb i of a magnitude (least significant first), 0 beyond its length
Limb(m, i) == IF i >= 1 /\ i <= Len(m) THEN m[i] ELSE 0

Max(a, b) == IF a >= b THEN a ELSE b

\* the carry out of limb i of a + b
RECURSIVE Carry(_, _, _)
Carry(a, b, i) ==
  IF i = 0 THEN 0
  ELSE LET x == Limb(a, i) + Limb(b, i)
       IN  IF x >= Base THEN 1
           ELSE IF x = Base - 1 THEN Carry(a, b, i - 1)
           ELSE 0

MagAdd(a, b) ==
  LET n == Max(Len(a), Len(b)) + 1
  IN  StripHigh(Tup([i \in 1..n |->
                       (Limb(a, i) + Limb(b, i) + Carry(a, b, i - 1)) % Base]))

\* the borrow out of limb i of a - b
RECURSIVE Borrow(_, _, _)
Borrow(a, b, i) ==
  IF i = 0 THEN 0
  ELSE IF Limb(a, i) < Limb(b, i) THEN 1
  ELSE IF Limb(a, i) = Limb(b, i) THEN Borrow(a, b, i - 1)
  ELSE 0

\* a - b for a >= b
MagSub(a, b) ==
  StripHigh(Tup([i \in 1..Len(a) |->
                   (Limb(a, i) - Limb(b, i) - Borrow(a, b, i - 1) + Base) % Base]))

RECURSIVE MagCmpAt(_, _, _)
MagCmpAt(a, b, i) ==
  IF i = 0 THEN 0
  ELSE IF a[i] < b[i] THEN -1
  ELSE IF a[i] > b[i] THEN 1
  ELSE MagCmpAt(a, b, i - 1)

\* -1, 0, 1 for stripped magnitudes
MagCmp(a, b) ==
  IF Len(a) < Len(b) THEN -1
  ELSE IF Len(a) > Len(b) THEN 1
  ELSE MagCmpAt(a, b, Len(a))

\* a * d for one limb d, shifted up by k limbs: the low and the high halves
\* of the limb products are magnitudes of their own
MagMulSmall(a, d, k) ==
  MagAdd(Tup([i \in 1..(Len(a) + k) |-> IF i <= k THEN 0 ELSE (a[i - k] * d) % Base]),
         Tup([i \in 1..(Len(a) + k + 1) |->
                IF i <= k + 1 THEN 0 ELSE (a[i - k - 1] * d) \div Base]))

RECURSIVE MagMulFrom(_, _, _)
MagMulFrom(a, b, k) ==
  IF k > Len(a) THEN <<>>
  ELSE MagAdd(MagMulSmall(b, a[k], k - 1), MagMulFrom(a, b, k + 1))

\* the outer loop runs over the shorter operand
MagMul(a, b) ==
  IF Len(a) <= Len(b) THEN MagMulFrom(a, b, 1) ELSE MagMulFrom(b, a, 1)

Zeros(n) == Tup([i \in 1..n |-> 0])

RECURSIVE StripLow(_, _)
StripLow(m, e) ==
  IF e > 0 /\ m # <<>> /\ Head(m) = 0 THEN StripLow(Tail(m), e - 1)
  ELSE [mag |-> m, exp |-> e]

\* the canonical form of a decimal: no leading or trailing zero limbs
Norm(neg, m, e) ==
  LET h == StripHigh(m)
      l == StripLow(h, e)
  IN  IF h = <<>> THEN [neg |-> FALSE, mag |-> <<>>, exp |-> 0]
      ELSE [neg |-> neg, mag |-> l.mag, exp |-> l.exp]

Align(d, e) == Zeros(e - d.exp) \o d.mag

DNeg(a) == Norm(~a.neg, a.mag, a.exp)

DAdd(a, b) ==
  LET e  == Max(a.exp, b.exp)
      ma == Align(a, e)
      mb == Align(b, e)
      c  == MagCmp(StripHigh(ma), StripHigh(mb))
  IN  IF a.neg = b.neg THEN Norm(a.neg, MagAdd(ma, mb), e)
      ELSE IF c >= 0 THEN Norm(a.neg, MagSub(ma, mb), e)
      ELSE Norm(b.neg, MagSub(mb, ma), e)

DSub(a, b) == DAdd(a, DNeg(b))

DMul(a, b) == Norm(a.neg # b.neg, MagMul(a.mag, b.mag), a.exp + b.exp)

\* -1, 0, 1
DCmp(a, b) ==
  LET d == DSub(a, b)
  IN  IF d.mag = <<>> THEN 0 ELSE IF d.neg THEN -1 ELSE 1

DLe(a, b) == DCmp(a, b) <= 0

DLt(a, b) == DCmp(a, b) < 0

DMin(a, b) == IF DLe(a, b) THEN a ELSE b

DInt(n) == Norm(n < 0, <<(IF n < 0 THEN -n ELSE n) % Base, (IF n < 0 THEN -n ELSE n) \div Base>>, 0)

\* n hundredths, n thousandths: the decimal literals of the source
D2(n) == Norm(FALSE, <<(n % 100) * 100, n \div 100>>, 1)

D3(n) == Norm(FALSE, <<(n % 1000) * 10, n \div 1000>>, 1)

\* TRUE of every decimal.  TLC evaluates an operator's arguments when they
\* are first used: a guard Computed(x) has x evaluated there, as the Python
\* statement that assigns x does.
Computed(x) == x.exp >= 0

RECURSIVE powFrom(_, _, _)
powFrom(x, n, acc) ==
  IF Computed(acc) /\ n > 0 THEN powFrom(x, n - 1, DMul(acc, x)) ELSE acc

\* pow(x, n) for an integer n >= 0
pow(x, n) == powFrom(x, n, DInt(1))

\* math.ceil: the least integer >= a
DCeil(a) ==
  LET ip   == SubSeq(a.mag, a.exp + 1, Len(a.mag))
      frac == \E i \in 1..a.exp : i <= Len(a.mag) /\ a.mag[i] # 0
  IN  IF a.neg THEN Norm(TRUE, ip, 0)
      ELSE IF frac THEN Norm(FALSE, MagAdd(ip, <<1>>), 0)
      ELSE Norm(FALSE, ip, 0)

-----------------------------------------------------------------------------
(* Outcomes: a returned value or a raised exception.  kind stands for the  *)
(* message template of the raise statement, detail for what is formatted   *)
(* into it.                                                                *)

Returned(s, b, imp, arg) ==
  [ok |-> TRUE, exc |-> "none", kind |-> "none", detail |-> <<>>,
   score |-> <<s>>, base |-> b, imported |-> imp, handed |-> arg]

Raised(e, k, d, imp, arg) ==
  [ok |-> FALSE, exc |-> e, kind |-> k, detail |-> d,
   score |-> <<>>, base |-> <<>>, imported |-> imp, handed |-> arg]

-----------------------------------------------------------------------------
(* CVSS v3.1 weights.                                                      *)

V31_AV == (<<"N">> :> D2(85)) @@ (<<"A">> :> D2(62)) @@ (<<"L">> :> D2(55)) @@ (<<"P">> :> D2(20))

V31_AC == (<<"L">> :> D2(77)) @@ (<<"H">> :> D2(44))

V31_PR_U == (<<"N">> :> D2(85)) @@ (<<"L">> :> D2(62)) @@ (<<"H">> :> D2(27))

V31_PR_C == (<<"N">> :> D2(85)) @@ (<<"L">> :> D2(68)) @@ (<<"H">> :> D2(50))

\* the two weights exchanged
V31_UI_swapped == (<<"N">> :> D2(62)) @@ (<<"R">> :> D2(85))

V31_UI == (<<"N">> :> D2(85)) @@ (<<"R">> :> D2(62))

V31_CIA == (<<"H">> :> D2(56)) @@ (<<"L">> :> D2(22)) @@ (<<"N">> :> D2(0))

\* rounding down to one decimal
roundup_floor(x) ==
  LET x10 == DMul(x, DInt(10))
      up  == DCeil(x10)
  IN  CASE Computed(x10) -> DMul(IF up = x10 THEN up ELSE DSub(up, DInt(1)), D2(10))

\* math.ceil(x * 10.0) / 10.0
roundup_1_dec(x) ==
  LET x10 == DMul(x, DInt(10))
  IN  CASE Computed(x10) -> DMul(DCeil(x10), D2(10))

\* table[m[key]]: <<>> when it succeeds, else <<the KeyError's argument>>
KeyErrorOf(m, key, table) ==
  IF key \notin DOMAIN m THEN <<key>>
  ELSE IF m[key] \notin DOMAIN table THEN <<m[key]>>
  ELSE <<>>

\* the try block of cvss31_base: the first KeyError in evaluation order
Lookup31(m) ==
  LET AV == <<"A", "V">>
      AC == <<"A", "C">>
      S  == <<"S">>
      PR == <<"P", "R">>
      UI == <<"U", "I">>
      scopeErr == IF S \in DOMAIN m THEN <<>> ELSE <<S>>
      prTable  == IF S \in DOMAIN m /\ m[S] = <<"C">> THEN V31_PR_C ELSE V31_PR_U
  IN  KeyErrorOf(m, AV, V31_AV) \o KeyErrorOf(m, AC, V31_AC) \o scopeErr
        \o KeyErrorOf(m, PR, prTable) \o KeyErrorOf(m, UI, V31_UI)
        \o KeyErrorOf(m, <<"C">>, V31_CIA) \o KeyErrorOf(m, <<"I">>, V31_CIA)
        \o KeyErrorOf(m, <<"A">>, V31_CIA)

Score31(m) ==
  LET av    == V31_AV[m[<<"A", "V">>]]
      ac    == V31_AC[m[<<"A", "C">>]]
      scope == m[<<"S">>]
      pr    == (IF scope = <<"C">> THEN V31_PR_C ELSE V31_PR_U)[m[<<"P", "R">>]]
      ui    == V31_UI[m[<<"U", "I">>]]
      c     == V31_CIA[m[<<"C">>]]
      i     == V31_CIA[m[<<"I">>]]
      a     == V31_CIA[m[<<"A">>]]
      one   == DInt(1)
      iss   == DSub(one, DMul(DMul(DSub(one, c), DSub(one, i)), DSub(one, a)))
      p15   == pow(DSub(iss, D2(2)), 15)
      impact == IF scope = <<"U">> THEN DMul(D2(642), iss)
                ELSE CASE Computed(p15) ->
                       DSub(DMul(D2(752), DSub(iss, D3(29))), DMul(D2(325), p15))
      exploitability == DMul(DMul(DMul(DMul(D2(822), av), ac), pr), ui)
      total == DAdd(impact, exploitability)
      base  == IF DLe(impact, DInt(0)) THEN DInt(0)
               ELSE CASE Computed(total) ->
                      IF scope = <<"U">> THEN DMin(total, DInt(10))
                      ELSE DMin(DMul(D2(108), total), DInt(10))
  IN  CASE Computed(iss) /\ Computed(impact) /\ Computed(exploitability)
             /\ Computed(base) ->
        Returned(roundup_1_dec(base), <<base>>, FALSE, <<>>)

cvss31_base(m) ==
  LET err == Lookup31(m)
  IN  IF err # <<>> THEN Raised("ValueError", "InvalidMetric", <<Head(err)>>, FALSE, <<>>)
      ELSE Score31(m)

-----------------------------------------------------------------------------
(* Strings (sequences of characters) and the str methods the parser uses.  *)

Whitespace == {" ", "\t", "\n"}

RECURSIVE lstrip(_)
lstrip(s) == IF s # <<>> /\ Head(s) \in Whitespace THEN lstrip(Tail(s)) ELSE s

RECURSIVE rstrip(_)
rstrip(s) ==
  IF s # <<>> /\ s[Len(s)] \in Whitespace THEN rstrip(SubSeq(s, 1, Len(s) - 1)) ELSE s

strip(s) == rstrip(lstrip(s))

startswith(s, prefix) ==
  Len(s) >= Len(prefix) /\ SubSeq(s, 1, Len(prefix)) = prefix

Contains(s, ch) == \E i \in 1..Len(s) : s[i] = ch

\* s.split(sep): the parts between the occurrences of the character sep
RECURSIVE splitFrom(_, _, _)
splitFrom(s, sep, i) ==
  LET j == IF \E h \in i..Len(s) : s[h] = sep
           THEN CHOOSE h \in i..Len(s) : s[h] = sep /\ \A g \in i..(h - 1) : s[g] # sep
           ELSE Len(s) + 1
  IN  IF j > Len(s) THEN <<SubSeq(s, i, Len(s))>>
      ELSE <<SubSeq(s, i, j - 1)>> \o splitFrom(s, sep, j + 1)

split(s, sep) == splitFrom(s, sep, 1)

\* s.split(sep, 1) for s containing sep: <<before, after>> the first sep
split1(s, sep) ==
  LET i == CHOOSE j \in 1..Len(s) : s[j] = sep /\ \A h \in 1..(j - 1) : s[h] # sep
  IN  <<SubSeq(s, 1, i - 1), SubSeq(s, i + 1, Len(s))>>

\* "/".join(parts)
RECURSIVE join(_, _)
join(parts, sep) ==
  IF parts = <<>> THEN <<>>
  ELSE IF Len(parts) = 1 THEN parts[1]
  ELSE parts[1] \o <<sep>> \o join(Tail(parts), sep)

CVSS_PREFIX == <<"C", "V", "S", "S", ":">>

VersionChars == {"0", "1", "2", "3", "4", "5", "6", "7", "8", "9", "."}

\* the length of the longest run of [0-9.] of s that starts at index i
RECURSIVE RunLength(_, _)
RunLength(s, i) ==
  IF i <= Len(s) /\ s[i] \in VersionChars THEN 1 + RunLength(s, i + 1) ELSE 0

\* the pattern without its closing "/"
MatchVersionNoSlash(s) ==
  LET from == Len(CVSS_PREFIX) + 1
      n    == RunLength(s, from)
  IN  IF startswith(s, CVSS_PREFIX) /\ n >= 1
      THEN <<SubSeq(s, from, from + n - 1)>>
      ELSE <<>>

\* re.match(r"^CVSS:(?P<ver>[0-9.]+)\/", s): <<>> or <<ver>>
MatchVersion(s) ==
  LET from == Len(CVSS_PREFIX) + 1
      n    == RunLength(s, from)
  IN  IF startswith(s, CVSS_PREFIX) /\ n >= 1 /\ from + n <= Len(s) /\ s[from + n] = "/"
      THEN <<SubSeq(s, from, from + n - 1)>>
      ELSE <<>>

\* an insertion that keeps a value already bound
PutIfAbsent(m, k, v) == [x \in DOMAIN m \cup {k} |-> IF x \in DOMAIN m THEN m[x] ELSE v]

\* metrics[k] = v
Put(m, k, v) == [x \in DOMAIN m \cup {k} |-> IF x = k THEN v ELSE m[x]]

\* the for loop of parse_vector from part i on
RECURSIVE Collect(_, _, _)
Collect(parts, i, m) ==
  IF i > Len(parts) THEN m
  ELSE IF ~Contains(parts[i], ":") THEN Collect(parts, i + 1, m)
  ELSE LET kv == split1(parts[i], ":")
       IN  Collect(parts, i + 1, Put(m, kv[1], kv[2]))

NoMetrics == [k \in {} |-> <<>>]

Parsed(ver, m) == [ok |-> TRUE, ver |-> ver, metrics |-> m]

parse_vector(raw) ==
  LET v == strip(raw)
      m == MatchVersion(v)
  IN  IF ~startswith(v, CVSS_PREFIX)
      THEN Raised("ValueError", "MalformedVector", <<>>, FALSE, <<>>)
      ELSE IF m = <<>>
      THEN Raised("ValueError", "MissingVersion", <<>>, FALSE, <<>>)
      ELSE Parsed(m[1], Collect(Tail(split(v, "/")), 1, NoMetrics))

-----------------------------------------------------------------------------
(* CVSS v4.0 through the cvss package, and the entry point.                *)

\* the eleven keys in alphabetical order
required_sorted == << <<"A", "C">>, <<"A", "T">>, <<"A", "V">>, <<"P", "R">>, <<"S", "A">>,
                      <<"S", "C">>, <<"S", "I">>, <<"U", "I">>, <<"V", "A">>, <<"V", "C">>,
                      <<"V", "I">> >>

required == << <<"A", "V">>, <<"A", "C">>, <<"A", "T">>, <<"P", "R">>, <<"U", "I">>,
               <<"V", "C">>, <<"V", "I">>, <<"V", "A">>, <<"S", "C">>, <<"S", "I">>,
               <<"S", "A">> >>

CVSS40_PREFIX == <<"C", "V", "S", "S", ":", "4", ".", "0", "/">>

\* CVSS4(v).base_score: the package's answer, a score or an exception of its own
Provider(e, v) ==
  IF e.answer = <<>> THEN Raised("Exception", "ProviderError", <<>>, TRUE, <<v>>)
  ELSE Returned(e.answer[1], <<>>, TRUE, <<v>>)

cvss40_base(m, e) ==
  LET missing == SelectSeq(required, LAMBDA k : k \notin DOMAIN m)
      v == CVSS40_PREFIX
             \o join([j \in 1..Len(required) |-> required[j] \o <<":">> \o m[required[j]]], "/")
  IN  IF ~e.installed
      THEN Raised("RuntimeError", "ProviderUnavailable", <<>>, TRUE, <<>>)
      ELSE IF missing # <<>>
      THEN Raised("ValueError", "MissingMetrics", missing, TRUE, <<>>)
      ELSE Provider(e, v)

\* a dispatch on the exact version instead of its prefix
compute_exact_version(raw, e) ==
  LET p == parse_vector(raw)
  IN  IF ~p.ok THEN p
      ELSE IF p.ver = <<"3", ".", "1">> THEN cvss31_base(p.metrics)
      ELSE IF p.ver = <<"4", ".", "0">> THEN cvss40_base(p.metrics, e)
      ELSE Raised("ValueError", "UnsupportedVersion", <<p.ver>>, FALSE, <<>>)

compute_from_vector(raw, e) ==
  LET p == parse_vector(raw)
  IN  IF ~p.ok THEN p
      ELSE IF startswith(p.ver, <<"3", ".", "1">>) THEN cvss31_base(p.metrics)
      ELSE IF startswith(p.ver, <<"4">>) THEN cvss40_base(p.metrics, e)
      ELSE Raised("ValueError", "UnsupportedVersion", <<p.ver>>, FALSE, <<>>)

-----------------------------------------------------------------------------
(* cvss31_base applied to every metric map over the eight required keys,   *)
(* each key absent, or bound to a token of its table, or to a token of no  *)
(* table.                                                                  *)

NoRet == [ok |-> FALSE, exc |-> "none", kind |-> "none", detail |-> <<>>,
          score |-> <<>>, base |-> <<>>, imported |-> FALSE, handed |-> <<>>]

NoEnv == [installed |-> FALSE, answer |-> <<>>]

NoRequest == [method |-> "none", query |-> <<>>, json |-> <<>>, form |-> <<>>]

Absent == <<"absent">>

Unknown == <<"X">>

Required31 == {<<"A", "V">>, <<"A", "C">>, <<"P", "R">>, <<"U", "I">>,
               <<"S">>, <<"C">>, <<"I">>, <<"A">>}

Scopes == {<<"U">>, <<"C">>}

Choices(tokens) == tokens \cup {Unknown, Absent}

\* the map that binds the keys of f not bound to Absent
Present(f) == [k \in {x \in DOMAIN f : f[x] # Absent} |-> f[k]]

InitV31 ==
  /\ pc = "call"
  /\ request = NoRequest
  /\ vector = <<>>
  /\ env = NoEnv
  /\ ret = NoRet
  /\ \E av \in Choices(DOMAIN V31_AV), ac \in Choices(DOMAIN V31_AC),
        pr \in Choices(DOMAIN V31_PR_U), ui \in Choices(DOMAIN V31_UI),
        s \in Choices(Scopes), c \in Choices(DOMAIN V31_CIA),
        i \in Choices(DOMAIN V31_CIA), a \in Choices(DOMAIN V31_CIA) :
       metrics = Present((<<"A", "V">> :> av) @@ (<<"A", "C">> :> ac) @@ (<<"P", "R">> :> pr)
                           @@ (<<"U", "I">> :> ui) @@ (<<"S">> :> s) @@ (<<"C">> :> c)
                           @@ (<<"I">> :> i) @@ (<<"A">> :> a))

Cvss31Base ==
  /\ pc = "call"
  /\ pc' = "done"
  /\ ret' = cvss31_base(metrics)
  /\ UNCHANGED <<request, vector, metrics, env>>

SpecV31 == InitV31 /\ [][Cvss31Base]_vars

-----------------------------------------------------------------------------
(* compute_from_vector applied to vector strings: every valid v3.1 vector  *)
(* in the usual order, and vectors of several versions whose segments are  *)
(* rotated, reversed, padded with blanks, and joined by one more segment.  *)

MaxRot == 1

Order31 == << <<"A", "V">>, <<"A", "C">>, <<"P", "R">>, <<"U", "I">>,
              <<"S">>, <<"C">>, <<"I">>, <<"A">> >>

\* the segments key:value of the keys of order that m binds
Segments(order, m) ==
  LET keys == SelectSeq(order, LAMBDA k : k \in DOMAIN m)
  IN  Tup([j \in 1..Len(keys) |-> keys[j] \o <<":">> \o m[keys[j]]])

Render(lead, ver, segs, trail) ==
  lead \o CVSS_PREFIX \o ver \o <<"/">> \o join(segs, "/") \o trail

Valid31 ==
  { (<<"A", "V">> :> av) @@ (<<"A", "C">> :> ac) @@ (<<"P", "R">> :> pr)
      @@ (<<"U", "I">> :> ui) @@ (<<"S">> :> s) @@ (<<"C">> :> c)
      @@ (<<"I">> :> i) @@ (<<"A">> :> a) :
      av \in DOMAIN V31_AV, ac \in DOMAIN V31_AC, pr \in DOMAIN V31_PR_U,
      ui \in DOMAIN V31_UI, s \in Scopes, c \in DOMAIN V31_CIA,
      i \in DOMAIN V31_CIA, a \in DOMAIN V31_CIA }

AllValid31 == { Render(<<>>, <<"3", ".", "1">>, Segments(Order31, m), <<>>) : m \in Valid31 }

Map31(av, ac, pr, ui, s, c, i, a) ==
  (<<"A", "V">> :> <<av>>) @@ (<<"A", "C">> :> <<ac>>) @@ (<<"P", "R">> :> <<pr>>)
    @@ (<<"U", "I">> :> <<ui>>) @@ (<<"S">> :> <<s>>) @@ (<<"C">> :> <<c>>)
    @@ (<<"I">> :> <<i>>) @@ (<<"A">> :> <<a>>)

\* value tokens t[1..11] for the eleven v4.0 keys, in the order of required
Map40(t) == [k \in {required[j] : j \in 1..Len(required)} |->
               <<t[CHOOSE j \in 1..Len(required) : required[j] = k]>>]

Without(m, k) == [x \in DOMAIN m \ {k} |-> m[x]]

Bases ==
  { <<Order31, Map31("N", "L", "N", "N", "C", "L", "N", "N")>>,
    <<Order31, Map31("L", "H", "L", "R", "U", "H", "L", "N")>>,
    <<Order31, Without(Without(Map31("N", "L", "N", "N", "C", "L", "N", "N"), <<"S">>), <<"A">>)>>,
    <<required, Map40(<<"N", "L", "N", "N", "N", "H", "H", "H", "N", "N", "N">>)>>,
    <<required, Map40(<<"L", "H", "P", "L", "A", "L", "N", "H", "H", "L", "N">>)>>,
    <<required, Without(Without(Map40(<<"N", "L", "N", "N", "N", "H", "H", "H", "N", "N", "N">>),
                                <<"S", "A">>), <<"A", "T">>)>> }

Versions == { <<"3", ".", "1">>, <<"3", ".", "1", "0">>, <<"3", ".", "0">>, <<"3">>,
              <<"2", ".", "0">>, <<"4", ".", "0">>, <<"4", ".", "1">>, <<"4">> }

Extras == { <<>>, << <<"A", "V", ":", "A">> >>, << <<"S", ":", "U">> >>,
            << <<"S", "A", ":", "H">> >>, << <<"E", ":", "X">> >>, << <<"A", "V">> >>,
            << <<"C", ":", "H", ":", "L">> >> }

Pads == { <<>>, <<" ">> }

Rotate(segs, r) ==
  Tup([j \in 1..Len(segs) |-> segs[((j - 1 + r) % Len(segs)) + 1]])

Reverse(segs) == Tup([j \in 1..Len(segs) |-> segs[Len(segs) + 1 - j]])

Arranged ==
  { (IF rev THEN Reverse(Rotate(Segments(b[1], b[2]), r))
     ELSE Rotate(Segments(b[1], b[2]), r)) :
      b \in Bases, r \in 0..MaxRot, rev \in BOOLEAN }

Varied ==
  { Render(pad, ver, (IF front THEN x \o segs ELSE segs \o x), pad) :
      pad \in Pads, ver \in Versions, segs \in Arranged, x \in Extras, front \in BOOLEAN }

Answers == { <<>>, <<D2(930)>>, <<D2(1000)>> }

\* the package missing, or installed and answering
Envs == {NoEnv} \cup [installed : {TRUE}, answer : Answers]

InitCompute ==
  /\ pc = "call"
  /\ request = NoRequest
  /\ metrics = NoMetrics
  /\ ret = NoRet
  /\ \/ vector \in AllValid31 /\ env = NoEnv
     \/ vector \in Varied /\ env \in Envs

\* ver, metrics = parse_vector(vector), then the dispatch
ComputeFromVector ==
  /\ pc = "call"
  /\ pc' = "done"
  /\ ret' = compute_from_vector(vector, env)
  /\ LET p == parse_vector(vector)
     IN  metrics' = (IF p.ok THEN p.metrics ELSE metrics)
  /\ UNCHANGED <<request, vector, env>>

SpecCompute == InitCompute /\ [][ComputeFromVector]_vars

-----------------------------------------------------------------------------
(* parse_vector applied to strings put together from a lead, a head, a     *)
(* version, what follows the version, up to MaxSegs segments and a trail.  *)

MaxSegs == 2

Leads == { <<>>,
    <<" ">>,
    <<"\t", " ">> }

Heads == { <<"C", "V", "S", "S", ":">>,
    <<"C", "V", "S", "S">>,
    <<"c", "v", "s", "s", ":">>,
    <<"V", "S", "S", ":">>,
    <<"C", "V", "S", "S", ":", " ">> }

VersionTexts == { <<>>,
    <<"3", ".", "1">>,
    <<"4", ".", "0">>,
    <<".">>,
    <<"3", ".", "1", "a">>,
    <<"v", "3">> }

Afters == { <<"/">>,
    <<>>,
    <<":">>,
    <<" ", "/">> }

SegmentTexts == { <<"A", "V", ":", "N">>,
    <<"A", "V", ":", "A">>,
    <<"A", "V">>,
    <<>>,
    <<":">>,
    <<"C", ":", "H", ":", "L">>,
    <<"S", ":", "U", "/">> }

Trails == { <<>>,
    <<" ">>,
    <<"/">> }

InitParse ==
  /\ pc = "call"
  /\ request = NoRequest
  /\ metrics = NoMetrics
  /\ env = NoEnv
  /\ ret = NoRet
  /\ \E lead \in Leads, head \in Heads, ver \in VersionTexts, after \in Afters,
        n \in 0..MaxSegs, trail \in Trails :
       \E segs \in [1..n -> SegmentTexts] :
         vector = lead \o head \o ver \o after \o join(segs, "/") \o trail

ParseVector ==
  /\ pc = "call"
  /\ pc' = "done"
  /\ ret' = parse_vector(vector)
  /\ UNCHANGED <<request, vector, metrics, env>>

SpecParse == InitParse /\ [][ParseVector]_vars

-----------------------------------------------------------------------------
(* cvss40_base applied to metric maps over the eleven required keys and    *)
(* one more key, with the cvss package installed or not.                   *)

Tokens40 == { <<"N", "L", "N", "N", "N", "H", "H", "H", "N", "N", "N">>,
              <<"L", "H", "P", "L", "A", "L", "N", "H", "H", "L", "N">> }

InitV40 ==
  /\ pc = "call"
  /\ request = NoRequest
  /\ vector = <<>>
  /\ ret = NoRet
  /\ env \in Envs
  /\ \E keys \in SUBSET {required[j] : j \in 1..Len(required)}, t \in Tokens40,
        more \in BOOLEAN :
       metrics = [k \in keys \cup (IF more THEN {<<"E">>} ELSE {}) |->
                    IF k = <<"E">> THEN <<"X">> ELSE Map40(t)[k]]

Cvss40Base ==
  /\ pc = "call"
  /\ pc' = "done"
  /\ ret' = cvss40_base(metrics, env)
  /\ UNCHANGED <<request, vector, metrics, env>>

SpecV40 == InitV40 /\ [][Cvss40Base]_vars

-----------------------------------------------------------------------------
(* The /calculate handler.  A request carries a query string and, for a    *)
(* POST, a JSON body or a form; a field is <<>> when absent.               *)

JsonStr(s) == [type |-> "str", chars |-> s]

JsonInt == [type |-> "int", chars |-> <<>>]

Response(status, error, message, v, ver, score) ==
  [status |-> status, error |-> error, message |-> message,
   vector |-> v, version |-> ver, score |-> score]

\* an exception that leaves the handler: Flask's own 500 page
Unhandled == Response(500, <<>>, <<>>, <<>>, <<>>, <<>>)

NoResponse == Response(0, <<>>, <<>>, <<>>, <<>>, <<>>)

\* the except clauses of calculate for the outcomes p of line 46 and r of line 47
Except(v, p, r) ==
  LET x == IF p.ok THEN r ELSE p
  IN  IF x.ok THEN Response(200, <<>>, <<>>, <<v.chars>>, <<p.ver>>, x.score)
      ELSE IF x.exc = "RuntimeError"
      THEN Response(500, <<"runtime_error">>, <<[kind |-> x.kind, detail |-> x.detail]>>,
                    <<>>, <<>>, <<>>)
      ELSE IF x.exc = "ValueError"
      THEN Response(400, <<"invalid_input">>, <<[kind |-> x.kind, detail |-> x.detail]>>,
                    <<>>, <<>>, <<>>)
      ELSE Response(500, <<"internal_error">>, <<[kind |-> x.kind, detail |-> x.detail]>>,
                    <<>>, <<>>, <<>>)

\* except clauses that answer every exception as a server error
ExceptAllServerErrors(v, p, r) ==
  LET x == IF p.ok THEN r ELSE p
  IN  IF x.ok THEN Response(200, <<>>, <<>>, <<v.chars>>, <<p.ver>>, x.score)
      ELSE Response(500, <<"internal_error">>, <<[kind |-> x.kind, detail |-> x.detail]>>,
                    <<>>, <<>>, <<>>)

\* a try block whose except clauses answer every exception as a server error
TryAllServerErrors(v, e) ==
  IF v.type # "str"
  THEN Response(500, <<"internal_error">>, <<[kind |-> "AttributeError", detail |-> <<>>]>>,
                <<>>, <<>>, <<>>)
  ELSE ExceptAllServerErrors(v, parse_vector(v.chars), compute_from_vector(v.chars, e))

\* the try block of calculate: vector.strip() of a value that is no string
\* raises AttributeError, caught by except Exception
Try(v, e) ==
  IF v.type # "str"
  THEN Response(500, <<"internal_error">>, <<[kind |-> "AttributeError", detail |-> <<>>]>>,
                <<>>, <<>>, <<>>)
  ELSE Except(v, parse_vector(v.chars), compute_from_vector(v.chars, e))

\* Python's truth value of a field
Truthy(f) == f # <<>> /\ (f[1].type = "str" => f[1].chars # <<>>)

calculate(req, e) ==
  LET data == IF req.json = <<>> THEN <<>> ELSE req.json[1]
      given == IF req.method = "GET" THEN req.query
               ELSE IF data # <<>> /\ Truthy(data.vector) THEN data.vector
               ELSE req.form
  IN  IF req.method # "GET" /\ data # <<>> /\ data.type # "object" THEN Unhandled
      ELSE IF ~Truthy(given)
      THEN Response(400, <<"missing_vector">>, <<[kind |-> "MissingVector", detail |-> <<>>]>>,
                    <<>>, <<>>, <<>>)
      ELSE Try(given[1], e)

HandlerVectors ==
  { <<>>,
    <<"A", "V", ":", "N", "/", "A", "C", ":", "L">>,
    <<"C", "V", "S", "S", ":", "/", "A", "V", ":", "N">>,
    <<"C", "V", "S", "S", ":", "3", ".", "1", "/", "A", "V", ":", "N", "/", "A", "C", ":", "L">>,
    <<"C", "V", "S", "S", ":", "3", ".", "1", "/", "A", "V", ":", "N", "/", "A", "C", ":", "L", "/", "P", "R", ":", "N", "/", "U", "I", ":", "N", "/", "S", ":", "C", "/", "C", ":", "L", "/", "I", ":", "N", "/", "A", ":", "N">>,
    <<" ", "C", "V", "S", "S", ":", "3", ".", "1", "/", "A", "V", ":", "N", "/", "A", "C", ":", "L", "/", "P", "R", ":", "N", "/", "U", "I", ":", "N", "/", "S", ":", "U", "/", "C", ":", "H", "/", "I", ":", "H", "/", "A", ":", "H">>,
    <<"C", "V", "S", "S", ":", "3", ".", "1", "/", "A", "V", ":", "N", "/", "A", "C", ":", "L", "/", "P", "R", ":", "N", "/", "U", "I", ":", "N", "/", "S", ":", "U", "/", "C", ":", "N", "/", "I", ":", "N", "/", "A", ":", "Q">>,
    <<"C", "V", "S", "S", ":", "2", ".", "0", "/", "A", "V", ":", "N", "/", "A", "C", ":", "L">>,
    <<"C", "V", "S", "S", ":", "4", ".", "0", "/", "A", "V", ":", "N", "/", "A", "C", ":", "L", "/", "A", "T", ":", "N", "/", "P", "R", ":", "N", "/", "U", "I", ":", "N", "/", "V", "C", ":", "H", "/", "V", "I", ":", "H", "/", "V", "A", ":", "H", "/", "S", "C", ":", "N", "/", "S", "I", ":", "N", "/", "S", "A", ":", "N">>,
    <<"C", "V", "S", "S", ":", "4", ".", "0", "/", "A", "V", ":", "N", "/", "A", "C", ":", "L", "/", "A", "T", ":", "N", "/", "P", "R", ":", "N", "/", "U", "I", ":", "N", "/", "V", "C", ":", "H", "/", "V", "I", ":", "H", "/", "V", "A", ":", "H", "/", "S", "C", ":", "N", "/", "S", "I", ":", "N">> }

Fields == {<<>>} \cup { <<JsonStr(h)>> : h \in HandlerVectors }

\* request.get_json(silent=True) or {}: <<>> stands for {}, for no JSON body
\* and for a JSON body that is false
Bodies ==
  {<<>>} \cup { <<[type |-> "object", vector |-> f]>> : f \in Fields \cup {<<JsonInt>>} }
         \cup { <<[type |-> "array", vector |-> <<>>]>> }

Requests ==
  { [method |-> "GET", query |-> q, json |-> <<>>, form |-> <<>>] : q \in Fields }
    \cup { [method |-> "POST", query |-> q, json |-> b, form |-> <<>>] :
             q \in Fields, b \in Bodies }
    \cup { [method |-> "POST", query |-> q, json |-> <<>>, form |-> f] :
             q \in Fields, f \in Fields }

Init ==
  /\ pc = "call"
  /\ vector = <<>>
  /\ metrics = NoMetrics
  /\ ret = NoResponse
  /\ request \in Requests
  /\ env \in Envs

Calculate ==
  /\ pc = "call"
  /\ pc' = "done"
  /\ ret' = calculate(request, env)
  /\ UNCHANGED <<request, vector, metrics, env>>

Spec == Init /\ [][Calculate]_vars

-----------------------------------------------------------------------------
(* Vocabulary of the properties, read off the raw text by position.        *)

Blank(ch) == ch = " " \/ ch = "\t" \/ ch = "\n"

\* s without its leading and trailing blanks
Trimmed(s) ==
  LET inked == {i \in 1..Len(s) : ~Blank(s[i])}
  IN  IF inked = {} THEN <<>>
      ELSE SubSeq(s, CHOOSE i \in inked : \A j \in 1..(i - 1) : Blank(s[j]),
                     CHOOSE i \in inked : \A j \in (i + 1)..Len(s) : Blank(s[j]))

\* t carries the text p from index i on
TextAt(t, i, p) == i >= 1 /\ i + Len(p) - 1 <= Len(t) /\ \A j \in 1..Len(p) : t[i + j - 1] = p[j]

HasPrefix(t) == TextAt(t, 1, <<"C", "V", "S", "S", ":">>)

\* index of the first "/" of t, 0 when there is none
FirstSlash(t) ==
  IF \E i \in 1..Len(t) : t[i] = "/"
  THEN CHOOSE i \in 1..Len(t) : t[i] = "/" /\ \A j \in 1..(i - 1) : t[j] # "/"
  ELSE 0

\* "CVSS:" is followed at once by a non-empty run of digits and dots that ends at a "/"
HasVersion(t) ==
  /\ HasPrefix(t)
  /\ FirstSlash(t) > 6
  /\ \A i \in 6..(FirstSlash(t) - 1) :
       t[i] \in {"0", "1", "2", "3", "4", "5", "6", "7", "8", "9", "."}

VersionText(t) == SubSeq(t, 6, FirstSlash(t) - 1)

\* the indices at which a segment of t begins with key and ":"
Occurrences(t, key) ==
  {i \in 2..Len(t) : t[i - 1] = "/" /\ TextAt(t, i, key \o <<":">>)}

\* the value of the last segment of t whose abbreviation is key
LastValue(t, key) ==
  LET occ  == Occurrences(t, key)
      i    == CHOOSE x \in occ : \A y \in occ : x >= y
      from == i + Len(key) + 1
      stop == IF \E j \in from..Len(t) : t[j] = "/"
              THEN CHOOSE j \in from..Len(t) : t[j] = "/" /\ \A h \in from..(j - 1) : t[h] # "/"
              ELSE Len(t) + 1
  IN  SubSeq(t, from, stop - 1)

\* C7: parse_vector fails exactly with MalformedVector when the trimmed input
\* does not begin with CVSS:, else exactly with MissingVersion when CVSS: is
\* not followed at once by a non-empty run of digits and dots ending at a "/",
\* and succeeds on every other input, whatever its segments are.
C7_ParseFailsOnlyOnPrefixOrVersion ==
  pc = "done" =>
    LET t == Trimmed(vector)
    IN  IF ~HasPrefix(t) THEN ~ret.ok /\ ret.kind = "MalformedVector" /\ ret.exc = "ValueError"
        ELSE IF ~HasVersion(t)
        THEN ~ret.ok /\ ret.kind = "MissingVersion" /\ ret.exc = "ValueError"
        ELSE ret.ok /\ ret.ver = VersionText(t)

\* a padded input parsed with a segment without ":" skipped and an empty
\* abbreviation accepted
C7_Witness ==
  /\ pc = "done"
  /\ ret.ok
  /\ Blank(vector[1])
  /\ <<>> \in DOMAIN ret.metrics
  /\ TextAt(Trimmed(vector), FirstSlash(Trimmed(vector)), <<"/", "A", "V", "/">>)

\* the published v3.1 value tokens of each required metric
Recognized31 ==
  (<<"A", "V">> :> {<<"N">>, <<"A">>, <<"L">>, <<"P">>}) @@ (<<"A", "C">> :> {<<"L">>, <<"H">>})
    @@ (<<"P", "R">> :> {<<"N">>, <<"L">>, <<"H">>}) @@ (<<"U", "I">> :> {<<"N">>, <<"R">>})
    @@ (<<"S">> :> {<<"U">>, <<"C">>}) @@ (<<"C">> :> {<<"H">>, <<"L">>, <<"N">>})
    @@ (<<"I">> :> {<<"H">>, <<"L">>, <<"N">>}) @@ (<<"A">> :> {<<"H">>, <<"L">>, <<"N">>})

\* t is a v3.1 vector whose eight required metrics all carry recognized values
ValidV31Text(t) ==
  /\ HasVersion(t)
  /\ TextAt(VersionText(t), 1, <<"3", ".", "1">>)
  /\ \A k \in DOMAIN Recognized31 :
       Occurrences(t, k) # {} /\ LastValue(t, k) \in Recognized31[k]

ReferenceVector == <<"C", "V", "S", "S", ":", "3", ".", "1", "/", "A", "V", ":", "N", "/", "A", "C", ":", "L", "/", "P", "R", ":", "N", "/", "U", "I", ":", "N", "/", "S", ":", "C", "/", "C", ":", "L", "/", "I", ":", "N", "/", "A", ":", "N">>

\* C1 as stated: the reference vector with changed scope and low
\* confidentiality impact scores 5.3.
C1_ReferenceScores53 ==
  (pc = "done" /\ vector = ReferenceVector) => ret.ok /\ ret.score = <<D2(530)>>

\* C1 as amended: compute_from_vector returns 5.8 for the reference vector.
C1_ReferenceScores58 ==
  (pc = "done" /\ vector = ReferenceVector) => ret.ok /\ ret.score = <<D2(580)>>

C1_Witness == pc = "done" /\ vector = ReferenceVector /\ ret.ok /\ ret.base # <<>>

\* C6: for every valid v3.1 vector compute_from_vector returns a score s with
\* 0 <= s <= 10 that is a whole number of tenths and is the least such number
\* not below the pre-round base value.
C6_ScoreIsBaseRoundedUp ==
  (pc = "done" /\ ValidV31Text(Trimmed(vector))) =>
    /\ ret.ok
    /\ ret.base # <<>>
    /\ LET s == ret.score[1]
           b == ret.base[1]
       IN  /\ DLe(DInt(0), s) /\ DLe(s, DInt(10))
           /\ DMul(s, DInt(10)).exp = 0
           /\ DLe(b, s)
           /\ DLt(DSub(s, D2(10)), b)

\* a valid vector whose base value lies strictly between two tenths
C6_Witness ==
  /\ pc = "done"
  /\ ValidV31Text(Trimmed(vector))
  /\ ret.ok
  /\ DLt(ret.base[1], ret.score[1])
  /\ DLt(ret.score[1], DInt(10))

\* the indices at which a segment of t begins (after each "/")
SegStarts(t) == {i \in 2..(Len(t) + 1) : t[i - 1] = "/"}

\* the index just past the segment that begins at i
SegStop(t, i) ==
  IF \E j \in i..Len(t) : t[j] = "/"
  THEN CHOOSE j \in i..Len(t) : t[j] = "/" /\ \A h \in i..(j - 1) : t[h] # "/"
  ELSE Len(t) + 1

SegText(t, i) == SubSeq(t, i, SegStop(t, i) - 1)

HasColon(seg) == \E j \in 1..Len(seg) : seg[j] = ":"

\* the text of seg before its first ":"
KeyOf(seg) ==
  SubSeq(seg, 1, (CHOOSE j \in 1..Len(seg) : seg[j] = ":" /\ \A h \in 1..(j - 1) : seg[h] # ":") - 1)

\* the abbreviations that occur in t
KeysOf(t) == {KeyOf(SegText(t, i)) : i \in {j \in SegStarts(t) : HasColon(SegText(t, j))}}

\* a later segment of t carries the abbreviation of the segment at i
Superseded(t, i) ==
  /\ HasColon(SegText(t, i))
  /\ \E j \in Occurrences(t, KeyOf(SegText(t, i))) : j > i

RECURSIVE KeepFrom(_, _)
KeepFrom(t, i) ==
  (IF Superseded(t, i) THEN <<>> ELSE <<"/">> \o SegText(t, i))
    \o (IF SegStop(t, i) > Len(t) THEN <<>> ELSE KeepFrom(t, SegStop(t, i) + 1))

\* t with only the last occurrence of each abbreviation kept
Dedup(t) ==
  IF FirstSlash(t) = 0 THEN t
  ELSE SubSeq(t, 1, FirstSlash(t) - 1) \o KeepFrom(t, FirstSlash(t) + 1)

\* C8: when parsing succeeds the metric map binds exactly the abbreviations
\* that occur in the vector, each to the value of its last occurrence, and
\* compute_from_vector has the outcome it has on the vector with only the
\* last occurrence of each abbreviation kept; a duplicate is never rejected.
C8_LastOccurrenceWins ==
  (pc = "done" /\ HasVersion(Trimmed(vector))) =>
    LET t == Trimmed(vector)
    IN  /\ DOMAIN metrics = KeysOf(t)
        /\ \A k \in KeysOf(t) : metrics[k] = LastValue(t, k)
        /\ ret = compute_from_vector(Dedup(t), env)

\* an abbreviation occurs twice with different values and the vector is scored
C8_Witness ==
  /\ pc = "done"
  /\ ret.ok
  /\ Dedup(Trimmed(vector)) # Trimmed(vector)
  /\ \E k \in DOMAIN metrics :
       \E i \in Occurrences(Trimmed(vector), k) :
         SegText(Trimmed(vector), i) # k \o <<":">> \o metrics[k]

\* C5: after a successful parse the outcome is decided by the version text:
\* beginning with 3.1 it is that of cvss31_base on the parsed map, otherwise
\* beginning with 4 it is that of cvss40_base, and otherwise it is
\* UnsupportedVersion naming the version, whatever the metrics are.
C5_RoutesOnVersionPrefix ==
  (pc = "done" /\ HasVersion(Trimmed(vector))) =>
    LET ver == VersionText(Trimmed(vector))
    IN  IF TextAt(ver, 1, <<"3", ".", "1">>)
        THEN ret = cvss31_base(metrics) /\ ~ret.imported
        ELSE IF TextAt(ver, 1, <<"4">>)
        THEN ret = cvss40_base(metrics, env) /\ ret.imported
        ELSE /\ ~ret.ok
             /\ ret.exc = "ValueError"
             /\ ret.kind = "UnsupportedVersion"
             /\ ret.detail = <<ver>>
             /\ ret.score = <<>>
             /\ ~ret.imported

\* a version that begins with 3.1 without being 3.1 is scored by the v3.1 engine
C5_Witness ==
  /\ pc = "done"
  /\ HasVersion(Trimmed(vector))
  /\ VersionText(Trimmed(vector)) = <<"3", ".", "1", "0">>
  /\ ret.ok
  /\ ret.base # <<>>

\* the canonical v4.0 vector of t
Canonical40(t) ==
  <<"C", "V", "S", "S", ":", "4", ".", "0">>
    \o <<"/", "A", "V", ":">> \o LastValue(t, <<"A", "V">>)
    \o <<"/", "A", "C", ":">> \o LastValue(t, <<"A", "C">>)
    \o <<"/", "A", "T", ":">> \o LastValue(t, <<"A", "T">>)
    \o <<"/", "P", "R", ":">> \o LastValue(t, <<"P", "R">>)
    \o <<"/", "U", "I", ":">> \o LastValue(t, <<"U", "I">>)
    \o <<"/", "V", "C", ":">> \o LastValue(t, <<"V", "C">>)
    \o <<"/", "V", "I", ":">> \o LastValue(t, <<"V", "I">>)
    \o <<"/", "V", "A", ":">> \o LastValue(t, <<"V", "A">>)
    \o <<"/", "S", "C", ":">> \o LastValue(t, <<"S", "C">>)
    \o <<"/", "S", "I", ":">> \o LastValue(t, <<"S", "I">>)
    \o <<"/", "S", "A", ":">> \o LastValue(t, <<"S", "A">>)

Keys40 == { <<"A", "V">>, <<"A", "C">>, <<"A", "T">>, <<"P", "R">>, <<"U", "I">>, <<"V", "C">>,
            <<"V", "I">>, <<"V", "A">>, <<"S", "C">>, <<"S", "I">>, <<"S", "A">> }

\* t is a version 4 vector in which all eleven required abbreviations occur
Complete40(t) ==
  /\ HasVersion(t)
  /\ TextAt(VersionText(t), 1, <<"4">>)
  /\ Keys40 \subseteq KeysOf(t)

\* C10: for a version 4 vector with all eleven required metrics and the
\* package installed, the string handed to the package is CVSS:4.0/ followed
\* by the eleven metrics in the fixed order with the map's values, whatever
\* the order of the segments, the minor version and the extra metrics are,
\* and a score the package gives is returned unchanged.
C10_CanonicalVectorHanded ==
  (pc = "done" /\ Complete40(Trimmed(vector)) /\ env.installed) =>
    /\ ret.handed = <<Canonical40(Trimmed(vector))>>
    /\ env.answer # <<>> => ret.ok /\ ret.score = env.answer

\* version 4.1, an extra metric first, the required ones not in the fixed order
C10_Witness ==
  /\ pc = "done"
  /\ Complete40(Trimmed(vector))
  /\ env.installed
  /\ ret.ok
  /\ VersionText(Trimmed(vector)) = <<"4", ".", "1">>
  /\ TextAt(Trimmed(vector), 9, <<"/", "E", ":", "X", "/">>)
  /\ ~TextAt(Trimmed(vector), 13, <<"/", "A", "V", ":">>)
  /\ ret.handed # <<SubSeq(Trimmed(vector), 1, Len(Trimmed(vector)))>>

\* every required v3.1 key is bound to a token of its table
AllRecognized31(m) ==
  \A k \in DOMAIN Recognized31 : k \in DOMAIN m /\ m[k] \in Recognized31[k]

\* C2 as stated: cvss31_base returns a score exactly when all eight required
\* keys are present with recognized values (S being U or C), and otherwise
\* fails with InvalidMetric and no score.
C2_ScoreOnlyWhenAllRecognized ==
  pc = "done" =>
    IF AllRecognized31(metrics)
    THEN ret.ok /\ ret.score # <<>>
    ELSE ~ret.ok /\ ret.kind = "InvalidMetric" /\ ret.score = <<>>

\* the key of m that the lookups of cvss31_base reject first
Offending31(m) ==
  LET order == << <<"A", "V">>, <<"A", "C">>, <<"S">>, <<"P", "R">>, <<"U", "I">>,
                  <<"C">>, <<"I">>, <<"A">> >>
      bad   == SelectSeq(order, LAMBDA k : k \notin DOMAIN m \/ m[k] \notin Recognized31[k])
  IN  bad

\* C9 as stated: an InvalidMetric failure of cvss31_base names the
\* abbreviation of an offending metric, absent or bound to an unrecognized
\* token.
C9_InvalidMetricNamesAbbreviation ==
  (pc = "done" /\ ret.kind = "InvalidMetric") =>
    /\ Len(ret.detail) = 1
    /\ \E j \in 1..Len(Offending31(metrics)) : ret.detail[1] = Offending31(metrics)[j]

\* C3 as stated: when a required v4.0 key is absent cvss40_base fails with
\* MissingMetrics listing every absent key, the package being installed or
\* not, and nothing is handed to the package.
C3_MissingMetricsBeforeProvider ==
  (pc = "done" /\ ~(Keys40 \subseteq DOMAIN metrics)) =>
    /\ ~ret.ok
    /\ ret.kind = "MissingMetrics"
    /\ Len(ret.detail) = Cardinality(Keys40 \ DOMAIN metrics)
    /\ \A k \in Keys40 \ DOMAIN metrics : \E j \in 1..Len(ret.detail) : ret.detail[j] = k
    /\ ret.handed = <<>>

ClientKinds ==
  {"MalformedVector", "MissingVersion", "InvalidMetric", "MissingMetrics", "UnsupportedVersion"}

ServerKinds == {"ProviderUnavailable", "ProviderError", "AttributeError"}

\* the vector text of a GET request, or of a POST request with a JSON object
\* whose vector is a non-empty string; <<>> for every other request
ScoredText(req) ==
  IF req.method = "GET"
  THEN (IF req.query # <<>> /\ req.query[1].chars # <<>> THEN <<req.query[1].chars>> ELSE <<>>)
  ELSE IF req.json # <<>> /\ req.json[1].type = "object" /\ req.json[1].vector # <<>>
          /\ req.json[1].vector[1].type = "str" /\ req.json[1].vector[1].chars # <<>>
  THEN <<req.json[1].vector[1].chars>>
  ELSE <<>>

\* C4: a failure of compute_from_vector is answered with a structured error
\* that carries its kind; the kinds MalformedVector, MissingVersion,
\* InvalidMetric, MissingMetrics and UnsupportedVersion are answered with
\* status 400, status 500 is answered only for ProviderUnavailable or
\* another server-side fault, and no response carries an error and a score.
C4_FailuresMappedByKind ==
  pc = "done" =>
    /\ ret.error # <<>> =>
         /\ ret.score = <<>>
         /\ ret.message # <<>>
         /\ ret.message[1].kind \in ClientKinds => ret.status = 400
         /\ ret.status = 500 => ret.message[1].kind \in ServerKinds
         /\ ret.status \in {400, 500}
    /\ ret.score # <<>> => ret.status = 200 /\ ret.error = <<>>
    /\ ScoredText(request) # <<>> =>
         LET r == compute_from_vector(ScoredText(request)[1], env)
         IN  IF r.ok
             THEN ret.status = 200 /\ ret.score = r.score /\ ret.error = <<>>
             ELSE /\ ret.error # <<>>
                  /\ ret.message = <<[kind |-> r.kind, detail |-> r.detail]>>
                  /\ ret.status = (IF r.kind \in ClientKinds THEN 400 ELSE 500)

\* a scoring failure of a client kind answered with status 400
C4_Witness ==
  /\ pc = "done"
  /\ ScoredText(request) # <<>>
  /\ ret.status = 400
  /\ ret.message # <<>>
  /\ ret.message[1].kind = "UnsupportedVersion"

=============================================================================
